---- MODULE Spec2Model ----
(***************************************************************************)
(* A model of the candidate-search pipeline: SearchPipeline (search,       *)
(* evaluate_query), Reranker and EnhancedReranker (rerank and the scoring  *)
(* functions they call) and EvaluationClient (evaluate).                   *)
(*                                                                         *)
(* Python strings are sequences of one-character strings, so that lower(), *)
(* the `in` substring test, split() and the regular expressions are        *)
(* computed the way the code computes them.  Python floats are exact       *)
(* rationals <<numerator, denominator>> with a positive denominator.       *)
(***************************************************************************)
EXTENDS Integers, Sequences, FiniteSets, TLC

(***************************************************************************)
(* Bounds of the model.                                                    *)
(***************************************************************************)
\* longest list the vector store returns in the small-list runs
MaxCands == 3
\* largest final_k the pipeline is configured with in the small-list runs
MaxK == 2

(***************************************************************************)
(* Characters and strings.                                                 *)
(***************************************************************************)
LowerLetters ==
    {"a", "b", "c", "d", "e", "f", "g", "h", "i", "j", "k", "l", "m",
     "n", "o", "p", "q", "r", "s", "t", "u", "v", "w", "x", "y", "z"}

ToLowerMap ==
    ("A" :> "a") @@ ("B" :> "b") @@ ("C" :> "c") @@ ("D" :> "d") @@
    ("E" :> "e") @@ ("F" :> "f") @@ ("G" :> "g") @@ ("H" :> "h") @@
    ("I" :> "i") @@ ("J" :> "j") @@ ("K" :> "k") @@ ("L" :> "l") @@
    ("M" :> "m") @@ ("N" :> "n") @@ ("O" :> "o") @@ ("P" :> "p") @@
    ("Q" :> "q") @@ ("R" :> "r") @@ ("S" :> "s") @@ ("T" :> "t") @@
    ("U" :> "u") @@ ("V" :> "v") @@ ("W" :> "w") @@ ("X" :> "x") @@
    ("Y" :> "y") @@ ("Z" :> "z")

DigitValue ==
    ("0" :> 0) @@ ("1" :> 1) @@ ("2" :> 2) @@ ("3" :> 3) @@ ("4" :> 4) @@
    ("5" :> 5) @@ ("6" :> 6) @@ ("7" :> 7) @@ ("8" :> 8) @@ ("9" :> 9)

IsDigit(ch) == ch \in DOMAIN DigitValue

IsSpace(ch) == ch = " "

\* the regular expression class \w
IsWordChar(ch) ==
    ch \in LowerLetters \/ ch \in DOMAIN ToLowerMap \/ IsDigit(ch) \/ ch = "_"

\* str.lower()
lower(s) ==
    [i \in 1..Len(s) |-> IF s[i] \in DOMAIN ToLowerMap THEN ToLowerMap[s[i]] ELSE s[i]]

\* the `sub in s` test of two strings
contains(sub, s) ==
    \E i \in 0..(Len(s) - Len(sub)) : SubSeq(s, i + 1, i + Len(sub)) = sub

\* s.startswith(sub, i), with i counted from 1
StartsAt(sub, s, i) ==
    /\ i + Len(sub) - 1 <= Len(s)
    /\ SubSeq(s, i, i + Len(sub) - 1) = sub

\* " ".join(list)
RECURSIVE join(_)
join(list) ==
    IF list = <<>> THEN <<>>
    ELSE IF Len(list) = 1 THEN list[1]
    ELSE list[1] \o <<" ">> \o join(Tail(list))

\* str.replace('+', '')
RECURSIVE remove_plus(_)
remove_plus(s) ==
    IF s = <<>> THEN <<>>
    ELSE IF Head(s) = "+" THEN remove_plus(Tail(s))
    ELSE <<Head(s)>> \o remove_plus(Tail(s))

\* str.isdigit(): non-empty and every character a digit
isdigit(s) == s # <<>> /\ \A i \in 1..Len(s) : IsDigit(s[i])

\* int(s) of a digit string
RECURSIVE int(_)
int(s) ==
    IF s = <<>> THEN 0
    ELSE 10 * int(SubSeq(s, 1, Len(s) - 1)) + DigitValue[s[Len(s)]]

\* the end of the longest run of characters satisfying a class that starts
\* at position i (i - 1 when there is none)
RECURSIVE RunEnd(_, _, _)
RunEnd(s, i, class) ==
    IF i <= Len(s) /\ s[i] \in class THEN RunEnd(s, i + 1, class) ELSE i - 1

CharsOf(s) == {s[i] : i \in 1..Len(s)}

\* the maximal runs of characters of a class, in order: re.findall(r'\b\w+\b')
\* for the class \w, and str.split() for the class of non-blank characters
RECURSIVE Runs(_, _, _)
Runs(s, i, class) ==
    IF i > Len(s) THEN <<>>
    ELSE IF s[i] \in class
         THEN <<SubSeq(s, i, RunEnd(s, i, class))>>
                  \o Runs(s, RunEnd(s, i, class) + 1, class)
         ELSE Runs(s, i + 1, class)

findall_words(s) == Runs(s, 1, {ch \in CharsOf(s) : IsWordChar(ch)})

split(s) == Runs(s, 1, {ch \in CharsOf(s) : ~IsSpace(ch)})

(***************************************************************************)
(* Rationals.                                                              *)
(***************************************************************************)
Rat(n, d) == <<n, d>>
RLeq(a, b) == a[1] * b[2] <= b[1] * a[2]
RLess(a, b) == a[1] * b[2] < b[1] * a[2]
REq(a, b) == a[1] * b[2] = b[1] * a[2]
RAdd(a, b) == <<a[1] * b[2] + b[1] * a[2], a[2] * b[2]>>
RSub(a, b) == <<a[1] * b[2] - b[1] * a[2], a[2] * b[2]>>
RMul(a, b) == <<a[1] * b[1], a[2] * b[2]>>
RMin(a, b) == IF RLeq(a, b) THEN a ELSE b
RECURSIVE Gcd(_, _)
Gcd(a, b) == IF b = 0 THEN a ELSE Gcd(b, a % b)
Abs(n) == IF n < 0 THEN -n ELSE n
\* the canonical form, so that equal numbers are equal values
RNorm(a) ==
    IF a[1] = 0 THEN <<0, 1>>
    ELSE <<a[1] \div Gcd(Abs(a[1]), a[2]), a[2] \div Gcd(Abs(a[1]), a[2])>>
RZero == <<0, 1>>
ROne == <<1, 1>>

RECURSIVE RSum(_)
RSum(list) == IF list = <<>> THEN RZero ELSE RAdd(Head(list), RSum(Tail(list)))

(***************************************************************************)
(* The strings of the model, each with its characters.                     *)
(***************************************************************************)
Chars ==
    ("" :> <<>>) @@
    ("JD degree" :> <<"J", "D", " ", "d", "e", "g", "r", "e", "e">>) @@
    ("3+ years of experience" :> <<"3", "+", " ", "y", "e", "a", "r", "s", " ", "o", "f", " ", "e", "x", "p", "e", "r", "i", "e", "n", "c", "e">>) @@
    ("Experience handling IRS audits" :> <<"E", "x", "p", "e", "r", "i", "e", "n", "c", "e", " ", "h", "a", "n", "d", "l", "i", "n", "g", " ", "I", "R", "S", " ", "a", "u", "d", "i", "t", "s">>) @@
    ("tax implications" :> <<"t", "a", "x", " ", "i", "m", "p", "l", "i", "c", "a", "t", "i", "o", "n", "s">>) @@
    ("of the" :> <<"o", "f", " ", "t", "h", "e">>) @@
    ("Tax attorney IRS audits" :> <<"T", "a", "x", " ", "a", "t", "t", "o", "r", "n", "e", "y", " ", "I", "R", "S", " ", "a", "u", "d", "i", "t", "s">>) @@
    ("General practice" :> <<"G", "e", "n", "e", "r", "a", "l", " ", "p", "r", "a", "c", "t", "i", "c", "e">>) @@
    ("Software engineer" :> <<"S", "o", "f", "t", "w", "a", "r", "e", " ", "e", "n", "g", "i", "n", "e", "e", "r">>) @@
    ("Tax Attorney" :> <<"T", "a", "x", " ", "A", "t", "t", "o", "r", "n", "e", "y">>) @@
    ("Engineer" :> <<"E", "n", "g", "i", "n", "e", "e", "r">>) @@
    ("IRS audits" :> <<"I", "R", "S", " ", "a", "u", "d", "i", "t", "s">>) @@
    ("Tax law school" :> <<"T", "a", "x", " ", "l", "a", "w", " ", "s", "c", "h", "o", "o", "l">>) @@
    ("Audits Inc" :> <<"A", "u", "d", "i", "t", "s", " ", "I", "n", "c">>) @@
    ("JD" :> <<"J", "D">>) @@
    ("Bachelor's" :> <<"B", "a", "c", "h", "e", "l", "o", "r", "'", "s">>) @@
    ("5" :> <<"5">>) @@
    ("1" :> <<"1">>) @@
    ("10" :> <<"1", "0">>) @@
    ("10+" :> <<"1", "0", "+">>) @@
    ("3" :> <<"3">>) @@
    ("n/a" :> <<"n", "/", "a">>) @@
    ("Doctor of Law" :> <<"D", "o", "c", "t", "o", "r", " ", "o", "f", " ", "L", "a", "w">>) @@
    ("J.D." :> <<"J", ".", "D", ".">>) @@
    ("Juris Doctor required" :> <<"J", "u", "r", "i", "s", " ", "D", "o", "c", "t", "o", "r", " ", "r", "e", "q", "u", "i", "r", "e", "d">>) @@
    ("Graduated from law school" :> <<"G", "r", "a", "d", "u", "a", "t", "e", "d", " ", "f", "r", "o", "m", " ", "l", "a", "w", " ", "s", "c", "h", "o", "o", "l">>) @@
    ("10 years experience" :> <<"1", "0", " ", "y", "e", "a", "r", "s", " ", "e", "x", "p", "e", "r", "i", "e", "n", "c", "e">>) @@
    ("Years of experience" :> <<"Y", "e", "a", "r", "s", " ", "o", "f", " ", "e", "x", "p", "e", "r", "i", "e", "n", "c", "e">>)

CharsOfAll(list) == [i \in 1..Len(list) |-> Chars[list[i]]]

\* None, the absent value of an Optional argument or of a dict key
None == <<"None">>

(***************************************************************************)
(* Candidate profiles the vector store holds: the attributes of a row.     *)
(***************************************************************************)
BaseAttributes ==
    <<[rerankSummary |-> "Tax attorney IRS audits", experience |-> <<>>,
       education |-> <<>>, exp_titles |-> <<"Tax Attorney">>,
       exp_companies |-> <<>>, deg_degrees |-> <<"JD">>, exp_years |-> <<"5">>],
      [rerankSummary |-> "General practice", experience |-> <<>>,
       education |-> <<>>, exp_titles |-> <<"Tax Attorney">>,
       exp_companies |-> <<"Audits Inc">>, deg_degrees |-> <<"JD">>,
       exp_years |-> <<"1">>],
      [rerankSummary |-> "Software engineer", experience |-> <<>>,
       education |-> <<"Tax law school">>, exp_titles |-> <<"Engineer">>,
       exp_companies |-> <<>>, deg_degrees |-> <<"Bachelor's">>,
       exp_years |-> <<"10">>],
      [rerankSummary |-> "", experience |-> <<"IRS audits">>,
       education |-> <<>>, exp_titles |-> <<>>,
       exp_companies |-> <<>>, deg_degrees |-> <<>>, exp_years |-> <<>>]>>

\* the distance of each base profile from the query vector, in hundredths
BaseDistance == <<5, 3, 4, 3>>

BaseIds == 1..Len(BaseAttributes)

\* row id -> the base profile whose attributes the row carries
BaseOf(id) == ((id - 1) % Len(BaseAttributes)) + 1

\* TurbopufferClient._format_results: a row as a candidate dict; the keys
\* rerank adds later are absent
format_result(id) ==
    [_id |-> id,
     distance |-> BaseDistance[BaseOf(id)] + ((id - 1) \div Len(BaseAttributes)),
     attributes |-> BaseAttributes[BaseOf(id)],
     soft_criteria_breakdown |-> None,
     rerank_score |-> None, ce_score |-> None,
     soft_score |-> None, distance_score |-> None]

(***************************************************************************)
(* The criteria lists callers pass.                                        *)
(***************************************************************************)
HardChoices ==
    {None, <<>>, <<"JD degree">>, <<"3+ years of experience">>,
     <<"JD degree", "3+ years of experience">>}

SoftChoices ==
    {None, <<>>, <<"tax implications">>,
     <<"Experience handling IRS audits", "tax implications">>,
     <<"tax implications", "of the">>}

(***************************************************************************)
(* EnhancedReranker.extract_keywords                                       *)
(***************************************************************************)
stop_words ==
    {
     <<"t", "h", "e">>,
     <<"a">>,
     <<"a", "n">>,
     <<"a", "n", "d">>,
     <<"o", "r">>,
     <<"b", "u", "t">>,
     <<"i", "n">>,
     <<"o", "n">>,
     <<"a", "t">>,
     <<"t", "o">>,
     <<"f", "o", "r">>,
     <<"o", "f">>,
     <<"w", "i", "t", "h">>,
     <<"b", "y">>,
     <<"f", "r", "o", "m">>,
     <<"a", "s">>,
     <<"i", "s">>,
     <<"w", "a", "s">>,
     <<"a", "r", "e">>,
     <<"b", "e", "e", "n">>,
     <<"b", "e">>,
     <<"h", "a", "v", "e">>,
     <<"h", "a", "s">>,
     <<"h", "a", "d">>,
     <<"d", "o">>,
     <<"d", "o", "e", "s">>,
     <<"d", "i", "d">>,
     <<"w", "i", "l", "l">>,
     <<"w", "o", "u", "l", "d">>,
     <<"s", "h", "o", "u", "l", "d">>,
     <<"c", "o", "u", "l", "d">>,
     <<"m", "a", "y">>,
     <<"m", "i", "g", "h", "t">>,
     <<"m", "u", "s", "t">>,
     <<"c", "a", "n">>,
     <<"e", "x", "p", "e", "r", "i", "e", "n", "c", "e">>,
     <<"a", "d", "v", "i", "s", "i", "n", "g">>
    }

extract_keywords(criteria) ==
    SelectSeq(findall_words(lower(criteria)),
              LAMBDA w : w \notin stop_words /\ Len(w) > 2)

(***************************************************************************)
(* EnhancedReranker.check_hard_criteria                                    *)
(***************************************************************************)
Str_jd == <<"j", "d">>
Str_juris_doctor == <<"j", "u", "r", "i", "s", " ", "d", "o", "c", "t", "o", "r">>
Str_law_school == <<"l", "a", "w", " ", "s", "c", "h", "o", "o", "l">>
Str_doctor_of_law == <<"d", "o", "c", "t", "o", "r", " ", "o", "f", " ", "l", "a", "w">>
Str_year == <<"y", "e", "a", "r">>
Str_experience == <<"e", "x", "p", "e", "r", "i", "e", "n", "c", "e">>

Digits == DOMAIN DigitValue

\* where a match of \s*\+?\s*year that starts at position j ends its
\* blanks and optional plus sign: the position at which "year" must start
AfterYearsSeparator(s, j) ==
    LET a == RunEnd(s, j, {" "}) + 1
        b == IF a <= Len(s) /\ s[a] = "+" THEN a + 1 ELSE a
    IN  RunEnd(s, b, {" "}) + 1

\* the positions at which (\d+)\s*\+?\s*year matches
YearsMatchStarts(s) ==
    {i \in 1..Len(s) :
        /\ IsDigit(s[i])
        /\ StartsAt(Str_year, s, AfterYearsSeparator(s, RunEnd(s, i, Digits) + 1))}

\* re.search(r'(\d+)\s*\+?\s*year', s): group 1 of the leftmost match, or None
search_years(s) ==
    IF YearsMatchStarts(s) = {} THEN None
    ELSE LET i == CHOOSE k \in YearsMatchStarts(s) :
                      \A m \in YearsMatchStarts(s) : k <= m
         IN  SubSeq(s, i, RunEnd(s, i, Digits))

\* the loop over exp_years: the largest numeric bucket, 0 when there is none
RECURSIVE max_bucket(_)
max_bucket(exp_years) ==
    IF exp_years = <<>> THEN 0
    ELSE LET bucket == exp_years[Len(exp_years)]
             rest == max_bucket(SubSeq(exp_years, 1, Len(exp_years) - 1))
         IN  IF isdigit(remove_plus(bucket)) /\ int(remove_plus(bucket)) > rest
             THEN int(remove_plus(bucket))
             ELSE rest

\* a JD branch that compares the degrees without lower()
fails_jd_case_sensitive(attributes, criterion_lower) ==
    /\ \/ contains(Str_jd, criterion_lower)
       \/ contains(Str_juris_doctor, criterion_lower)
       \/ contains(Str_law_school, criterion_lower)
    /\ ~\E k \in 1..Len(attributes.deg_degrees) :
            \/ contains(Str_jd, Chars[attributes.deg_degrees[k]])
            \/ contains(Str_doctor_of_law, Chars[attributes.deg_degrees[k]])

\* the JD branch returns False
fails_jd(attributes, criterion_lower) ==
    /\ \/ contains(Str_jd, criterion_lower)
       \/ contains(Str_juris_doctor, criterion_lower)
       \/ contains(Str_law_school, criterion_lower)
    /\ ~\E k \in 1..Len(attributes.deg_degrees) :
            \/ contains(Str_jd, lower(Chars[attributes.deg_degrees[k]]))
            \/ contains(Str_doctor_of_law, lower(Chars[attributes.deg_degrees[k]]))

\* a years branch that also rejects the candidate with exactly the years asked
fails_years_at_boundary(attributes, criterion_lower) ==
    /\ contains(Str_year, criterion_lower)
    /\ contains(Str_experience, criterion_lower)
    /\ search_years(criterion_lower) # None
    /\ attributes.exp_years # <<>>
    /\ max_bucket(CharsOfAll(attributes.exp_years)) <= int(search_years(criterion_lower))

\* the years-of-experience branch returns False
fails_years(attributes, criterion_lower) ==
    /\ contains(Str_year, criterion_lower)
    /\ contains(Str_experience, criterion_lower)
    /\ search_years(criterion_lower) # None
    /\ attributes.exp_years # <<>>
    /\ max_bucket(CharsOfAll(attributes.exp_years)) < int(search_years(criterion_lower))

check_hard_criteria(candidate, hard) ==
    \A k \in 1..Len(hard) :
        /\ ~fails_jd(candidate.attributes, lower(Chars[hard[k]]))
        /\ ~fails_years(candidate.attributes, lower(Chars[hard[k]]))

(***************************************************************************)
(* EnhancedReranker.score_soft_criteria_enhanced                           *)
(***************************************************************************)
\* the list without the repetitions of its elements: the keys of a dict
\* filled in the list's order
RECURSIVE dict_keys(_)
dict_keys(list) ==
    IF list = <<>> THEN <<>>
    ELSE LET before == dict_keys(SubSeq(list, 1, Len(list) - 1))
         IN  IF \E k \in 1..Len(before) : before[k] = list[Len(list)]
             THEN before
             ELSE Append(before, list[Len(list)])

\* a keyword loop with `if` for `elif`: every tier the keyword is found in counts
keyword_match_every_tier(attributes, keyword) ==
    LET summary == lower(Chars[attributes.rerankSummary])
        experience == lower(join(CharsOfAll(attributes.experience)))
        education == lower(join(CharsOfAll(attributes.education)))
        titles == lower(join(CharsOfAll(attributes.exp_titles)))
        companies == lower(join(CharsOfAll(attributes.exp_companies)))
    IN  RAdd(RAdd(IF contains(keyword, summary) THEN Rat(10, 10) ELSE RZero,
                  IF contains(keyword, experience) \/ contains(keyword, titles)
                  THEN Rat(7, 10) ELSE RZero),
             IF contains(keyword, companies) \/ contains(keyword, education)
             THEN Rat(4, 10) ELSE RZero)

\* what one keyword adds to keyword_matches
keyword_match(attributes, keyword) ==
    LET summary == lower(Chars[attributes.rerankSummary])
        experience == lower(join(CharsOfAll(attributes.experience)))
        education == lower(join(CharsOfAll(attributes.education)))
        titles == lower(join(CharsOfAll(attributes.exp_titles)))
        companies == lower(join(CharsOfAll(attributes.exp_companies)))
    IN  IF contains(keyword, summary) THEN Rat(10, 10)
        ELSE IF contains(keyword, experience) \/ contains(keyword, titles)
             THEN Rat(7, 10)
        ELSE IF contains(keyword, companies) \/ contains(keyword, education)
             THEN Rat(4, 10)
        ELSE RZero

\* a criterion score that is the sum of the matches, not divided by the
\* number of keywords and not capped
criterion_score_not_normalized(attributes, criterion) ==
    LET keywords == extract_keywords(Chars[criterion])
    IN  IF keywords = <<>> THEN Rat(1, 2)
        ELSE RNorm(RSum([k \in 1..Len(keywords) |->
                            keyword_match(attributes, keywords[k])]))

\* criterion_scores[criterion]
criterion_score(attributes, criterion) ==
    LET keywords == extract_keywords(Chars[criterion])
        keyword_matches ==
            RSum([k \in 1..Len(keywords) |-> keyword_match(attributes, keywords[k])])
    IN  IF keywords = <<>> THEN Rat(1, 2)
        ELSE RNorm(RMin(RMul(keyword_matches, Rat(1, Len(keywords))), ROne))

\* np.mean of a non-empty list
mean(list) == RNorm(RMul(RSum(list), Rat(1, Len(list))))

score_soft_criteria_enhanced(candidate, soft) ==
    LET keys == dict_keys(soft)
        breakdown ==
            [k \in 1..Len(keys) |-> criterion_score(candidate.attributes, keys[k])]
    IN  [overall |-> IF breakdown # <<>> THEN mean(breakdown) ELSE RZero,
         breakdown |-> breakdown]

(***************************************************************************)
(* Reranker.score_soft_criteria                                            *)
(***************************************************************************)
any_keyword_in(criterion_lower, text) ==
    \E k \in 1..Len(split(criterion_lower)) :
        contains(split(criterion_lower)[k], text)

\* what one criterion adds to score
soft_criterion_points(attributes, criterion_lower) ==
    IF any_keyword_in(criterion_lower, lower(Chars[attributes.rerankSummary]))
    THEN Rat(10, 10)
    ELSE IF any_keyword_in(criterion_lower,
                           lower(join(CharsOfAll(attributes.experience))))
    THEN Rat(8, 10)
    ELSE IF any_keyword_in(criterion_lower,
                           lower(join(CharsOfAll(attributes.exp_titles))))
    THEN Rat(6, 10)
    ELSE RZero

score_soft_criteria(candidate, soft) ==
    LET max_score == Len(soft)
        score == RSum([k \in 1..max_score |->
                        soft_criterion_points(candidate.attributes,
                                              lower(Chars[soft[k]]))])
    IN  IF max_score = 0 THEN ROne
        ELSE RNorm(RMin(RMul(score, Rat(1, max_score)), ROne))

(***************************************************************************)
(* The three functions above are pure functions of a candidate's           *)
(* attributes and of the criteria list.  Each is evaluated once for every  *)
(* profile and criteria list of the model, and the rerankers read the      *)
(* values from these tables.                                               *)
(***************************************************************************)
ProfileOf(b) == [attributes |-> BaseAttributes[b]]

check_hard_criteria_table ==
    [b \in BaseIds |->
        [h \in HardChoices \ {None} |-> check_hard_criteria(ProfileOf(b), h)]]

score_soft_criteria_enhanced_table ==
    [b \in BaseIds |->
        [s \in SoftChoices \ {None} |->
            score_soft_criteria_enhanced(ProfileOf(b), s)]]

score_soft_criteria_table ==
    [b \in BaseIds |->
        [s \in SoftChoices \ {None} |-> score_soft_criteria(ProfileOf(b), s)]]

\* self.check_hard_criteria(c, hard), as rerank calls it
passes_hard_criteria(c, hard) ==
    check_hard_criteria_table[BaseOf(c._id)][hard]

\* self.score_soft_criteria_enhanced(candidate, soft), as rerank calls it
enhanced_soft_result(candidate, soft) ==
    score_soft_criteria_enhanced_table[BaseOf(candidate._id)][soft]

\* self.score_soft_criteria(candidate, soft), as rerank calls it
basic_soft_score(candidate, soft) ==
    score_soft_criteria_table[BaseOf(candidate._id)][soft]

(***************************************************************************)
(* The cross-encoder: an external model that gives every (query, text)     *)
(* pair a relevance score.  The query is fixed; a model is a function of   *)
(* the text, and ce_model says which of the models is loaded.              *)
(***************************************************************************)
\* number of cross-encoder models beyond model 0, which scores every text alike
NumCEModels == 1

predict(model, pairs) ==
    [k \in 1..Len(pairs) |-> Rat(((Len(pairs[k]) * model) % 5) - 2, 1)]

\* the text EnhancedReranker.rerank pairs with the query
enhanced_pair_text(candidate) ==
    LET attrs == candidate.attributes
    IN  IF Chars[attrs.rerankSummary] # <<>> THEN Chars[attrs.rerankSummary]
        ELSE join(CharsOfAll(attrs.experience)) \o <<" ">>
                 \o join(CharsOfAll(attrs.education))

\* the text Reranker.score_with_cross_encoder pairs with the query
basic_pair_text(candidate) ==
    LET attributes == candidate.attributes
    IN  IF Chars[attributes.rerankSummary] # <<>> THEN Chars[attributes.rerankSummary]
        ELSE join(CharsOfAll(attributes.education)) \o <<" ">>
                 \o join(CharsOfAll(attributes.experience))

(***************************************************************************)
(* numpy on lists of rationals.                                            *)
(***************************************************************************)
RECURSIVE array_max(_)
array_max(a) ==
    IF Len(a) = 1 THEN a[1]
    ELSE LET m == array_max(Tail(a)) IN IF RLess(m, a[1]) THEN a[1] ELSE m

RECURSIVE array_min(_)
array_min(a) ==
    IF Len(a) = 1 THEN a[1]
    ELSE LET m == array_min(Tail(a)) IN IF RLess(a[1], m) THEN a[1] ELSE m

ones(n) == [k \in 1..n |-> ROne]

\* the normalisation of the cross-encoder scores
normalize_ce(ce_scores) ==
    LET lo == array_min(ce_scores)
        hi == array_max(ce_scores)
        range == RSub(hi, lo)
    IN  IF RLess(lo, hi)
        THEN [k \in 1..Len(ce_scores) |->
                RNorm(RMul(RSub(ce_scores[k], lo), Rat(range[2], range[1])))]
        ELSE ce_scores

\* distance scores without the `1 -`: the farthest candidate scores highest
distance_scores_not_inverted(distances) ==
    LET lo == array_min(distances)
        hi == array_max(distances)
        range == RSub(hi, lo)
    IN  IF RLess(lo, hi)
        THEN [k \in 1..Len(distances) |->
                RNorm(RMul(RSub(distances[k], lo), Rat(range[2], range[1])))]
        ELSE ones(Len(distances))

\* the distance scores
distance_scores_of(distances) ==
    LET lo == array_min(distances)
        hi == array_max(distances)
        range == RSub(hi, lo)
    IN  IF RLess(lo, hi)
        THEN [k \in 1..Len(distances) |->
                RNorm(RSub(ROne, RMul(RSub(distances[k], lo),
                                      Rat(range[2], range[1]))))]
        ELSE ones(Len(distances))

\* sorted(candidates, key=lambda x: x["rerank_score"], reverse=True): a stable
\* sort, candidates with equal scores keep their order
\* a sort without reverse=True: the lowest score first
RECURSIVE insert_sorted_ascending(_, _)
insert_sorted_ascending(sorted_list, x) ==
    IF sorted_list = <<>> THEN <<x>>
    ELSE IF RLess(x.rerank_score, Head(sorted_list).rerank_score)
         THEN <<x>> \o sorted_list
         ELSE <<Head(sorted_list)>> \o insert_sorted_ascending(Tail(sorted_list), x)

RECURSIVE insert_sorted(_, _)
insert_sorted(sorted_list, x) ==
    IF sorted_list = <<>> THEN <<x>>
    ELSE IF RLess(Head(sorted_list).rerank_score, x.rerank_score)
         THEN <<x>> \o sorted_list
         ELSE <<Head(sorted_list)>> \o insert_sorted(Tail(sorted_list), x)

RECURSIVE sort_by_rerank_score(_)
sort_by_rerank_score(cands) ==
    IF cands = <<>> THEN <<>>
    ELSE insert_sorted(
             sort_by_rerank_score(SubSeq(cands, 1, Len(cands) - 1)),
             cands[Len(cands)])

\* `if x:` for an Optional list
Truthy(x) == x # None /\ x # <<>>

(***************************************************************************)
(* EnhancedReranker.rerank                                                 *)
(***************************************************************************)
Enhanced_cross_encoder_weight == Rat(3, 10)
Enhanced_soft_criteria_weight == Rat(5, 10)
Enhanced_distance_weight == Rat(2, 10)

\* a rerank that computes the filtered list and goes on with the full one
filter_hard_not_applied(cands, hard) == cands

\* Step 1: the candidates left after the hard criteria
filter_hard(cands, hard) ==
    IF Truthy(hard)
    THEN SelectSeq(cands, LAMBDA c : passes_hard_criteria(c, hard))
    ELSE cands

\* the weights of the cross-encoder and of the soft criteria taken for each other
Enhanced_final_score_weights_swapped(ce_score, soft_score, distance_score) ==
    RNorm(RAdd(RAdd(RMul(Enhanced_soft_criteria_weight, ce_score),
                    RMul(Enhanced_cross_encoder_weight, soft_score)),
               RMul(Enhanced_distance_weight, distance_score)))

\* Step 5: final_scores[i]
Enhanced_final_score(ce_score, soft_score, distance_score) ==
    RNorm(RAdd(RAdd(RMul(Enhanced_cross_encoder_weight, ce_score),
                    RMul(Enhanced_soft_criteria_weight, soft_score)),
               RMul(Enhanced_distance_weight, distance_score)))

\* Steps 2 to 5 and the scores added to the candidates
Enhanced_scored(cands, soft, model) ==
    LET ce_scores ==
            normalize_ce(predict(model,
                [k \in 1..Len(cands) |-> enhanced_pair_text(cands[k])]))
        soft_scores ==
            IF Truthy(soft)
            THEN [k \in 1..Len(cands) |->
                    enhanced_soft_result(cands[k], soft).overall]
            ELSE ones(Len(cands))
        distance_scores ==
            distance_scores_of([k \in 1..Len(cands) |->
                                   Rat(cands[k].distance, 1)])
    IN  [k \in 1..Len(cands) |->
            [cands[k] EXCEPT
                !.soft_criteria_breakdown =
                    IF Truthy(soft)
                    THEN enhanced_soft_result(cands[k], soft).breakdown
                    ELSE @,
                !.rerank_score =
                    Enhanced_final_score(ce_scores[k], soft_scores[k],
                                         distance_scores[k]),
                !.ce_score = ce_scores[k],
                !.soft_score = soft_scores[k],
                !.distance_score = distance_scores[k]]]

\* a rerank that drops the candidates no soft criterion matches
EnhancedReranker_rerank_soft_filter(cands, hard, soft, model) ==
    IF cands = <<>> THEN <<>>
    ELSE IF filter_hard(cands, hard) = <<>> THEN <<>>
    ELSE sort_by_rerank_score(
             SelectSeq(Enhanced_scored(filter_hard(cands, hard), soft, model),
                       LAMBDA c : RLess(RZero, c.soft_score)))

EnhancedReranker_rerank(cands, hard, soft, model) ==
    IF cands = <<>> THEN <<>>
    ELSE IF filter_hard(cands, hard) = <<>> THEN <<>>
    ELSE sort_by_rerank_score(
             Enhanced_scored(filter_hard(cands, hard),
                             soft, model))

\* whether the call reaches self.cross_encoder.predict
Enhanced_calls_predict(cands, hard) ==
    cands # <<>> /\ filter_hard(cands, hard) # <<>>

(***************************************************************************)
(* Reranker.rerank                                                         *)
(***************************************************************************)
Basic_cross_encoder_weight == Rat(6, 10)
Basic_soft_criteria_weight == Rat(2, 10)
Basic_distance_weight == Rat(2, 10)

Basic_final_score(ce_score, soft_score, distance_score) ==
    RNorm(RAdd(RAdd(RMul(Basic_cross_encoder_weight, ce_score),
                    RMul(Basic_soft_criteria_weight, soft_score)),
               RMul(Basic_distance_weight, distance_score)))

Basic_scored(cands, soft, model) ==
    LET ce_scores ==
            normalize_ce(predict(model,
                [k \in 1..Len(cands) |-> basic_pair_text(cands[k])]))
        soft_scores ==
            IF Truthy(soft)
            THEN [k \in 1..Len(cands) |->
                    basic_soft_score(cands[k], soft)]
            ELSE ones(Len(cands))
        distance_scores ==
            distance_scores_of([k \in 1..Len(cands) |->
                                   Rat(cands[k].distance, 1)])
    IN  [k \in 1..Len(cands) |->
            [cands[k] EXCEPT
                !.rerank_score =
                    Basic_final_score(ce_scores[k], soft_scores[k],
                                      distance_scores[k]),
                !.ce_score = ce_scores[k],
                !.soft_score = soft_scores[k],
                !.distance_score = distance_scores[k]]]

Reranker_rerank(cands, soft, model) ==
    IF cands = <<>> THEN <<>>
    ELSE sort_by_rerank_score(Basic_scored(cands, soft, model))

(***************************************************************************)
(* EvaluationClient.evaluate                                               *)
(***************************************************************************)
\* largest number of object IDs one evaluation request carries
MaxObjectIds == 10

\* list[:k]
slice_to(list, k) ==
    IF k >= 0 THEN SubSeq(list, 1, IF k < Len(list) THEN k ELSE Len(list))
    ELSE SubSeq(list, 1, Len(list) + k)

\* an evaluate that warns about the length and sends the whole list
evaluate_payload_not_truncated(ids) == ids

\* the object_ids of the request evaluate sends
evaluate_payload(ids) ==
    IF Len(ids) > MaxObjectIds THEN slice_to(ids, MaxObjectIds) ELSE ids

\* whether evaluate gets as far as requests.post
evaluate_sends(ids) == ids # <<>>

\* EvaluationClient.evaluate_from_results: the IDs handed to evaluate
ids_from_results(results_list, top_k) ==
    [k \in 1..Len(slice_to(results_list, top_k)) |-> results_list[k]._id]

(***************************************************************************)
(* Inputs.                                                                 *)
(***************************************************************************)
\* longest list of object IDs and of stored rows in the long-list runs
MaxIds == 12

\* the lists of distinct rows of length n over a set of row ids
RECURSIVE DistinctSeqs(_, _)
DistinctSeqs(ids, n) ==
    IF n = 0 THEN {<<>>}
    ELSE UNION {{Append(s, x) : x \in ids \ {s[k] : k \in 1..Len(s)}} :
                   s \in DistinctSeqs(ids, n - 1)}

\* the candidate lists a caller hands to a reranker
CandidateLists == UNION {DistinctSeqs(BaseIds, n) : n \in 0..MaxCands}

\* the vector store ranks the rows it returns by distance, nearest first
RankedByDistance(s) ==
    \A i \in 1..(Len(s) - 1) :
        format_result(s[i]).distance <= format_result(s[i + 1]).distance

SmallIndexes == {s \in CandidateLists : RankedByDistance(s)}

\* rows 2, 4, 3, 1 are in the order of their distances, and so are the rows
\* that follow them, four by four
LongRow(k) == ((k - 1) \div 4) * 4 + <<2, 4, 3, 1>>[((k - 1) % 4) + 1]

LongIndexes == {[k \in 1..n |-> LongRow(k)] : n \in (MaxObjectIds + 1)..MaxIds}

\* the lists of length at most 2 over a set of strings
SeqsUpTo2(S) == {<<>>} \cup {<<x>> : x \in S} \cup {<<x, y>> : x \in S, y \in S}

\* the deg_degrees and exp_years of the candidates check_hard_criteria is
\* called on
DegreeLists == SeqsUpTo2({"JD", "Bachelor's", "Doctor of Law", "J.D."})

YearLists == SeqsUpTo2({"1", "3", "10+", "n/a"})

\* the hard criteria lists check_hard_criteria is called on
HardCriteriaLists ==
    {<<"JD degree">>, <<"Juris Doctor required">>, <<"Graduated from law school">>,
     <<"3+ years of experience">>, <<"10 years experience">>,
     <<"Years of experience">>, <<"JD degree", "3+ years of experience">>}

\* the soft criteria lists score_soft_criteria_enhanced is called on
SoftCriteriaLists ==
    SeqsUpTo2({"tax implications", "Experience handling IRS audits", "of the"})
        \ {<<>>}

\* a candidate dict with the given degrees and years of experience
candidate_with(degrees, years) ==
    [format_result(4) EXCEPT !.attributes.deg_degrees = degrees,
                             !.attributes.exp_years = years]

\* "search" is SearchPipeline.search, called by itself or by evaluate_query
\* (through search_from_config), which goes on once search has returned
Operations ==
    {"search", "evaluate", "EnhancedReranker.rerank", "Reranker.rerank",
     "check_hard_criteria", "score_soft_criteria_enhanced"}

(***************************************************************************)
(* State.                                                                  *)
(***************************************************************************)
VARIABLES
    op,                     \* the operation the caller invoked
    pc,                     \* where the operation is
    use_reranking,          \* SearchPipeline.use_reranking
    use_enhanced_reranker,  \* SearchPipeline.use_enhanced_reranker
    final_k,                \* SearchPipeline.final_k
    hard_criteria,          \* the hard_criteria argument
    soft_criteria,          \* the soft_criteria argument
    index,                  \* the rows the vector store returns for the query
    ce_model,               \* the cross-encoder model loaded
    candidates,             \* the list handed to rerank
    results,                \* search's local `results`
    final_results,          \* what search returns
    object_ids,             \* the object_ids argument of evaluate
    calls,                  \* the external calls made so far, in order
    posted,                 \* the object_ids of the requests sent, in order
    ret                     \* what the operation returned or raised

vars ==
    <<op, pc, use_reranking, use_enhanced_reranker, final_k, hard_criteria,
      soft_criteria, index, ce_model, candidates, results, final_results,
      object_ids, calls, posted, ret>>

config_vars ==
    <<op, use_reranking, use_enhanced_reranker, final_k, hard_criteria,
      soft_criteria, index, ce_model, object_ids>>

\* what an operation hands back: nothing yet, a list, a dict, or an exception
NoReturn == [kind |-> "none", value |-> <<>>]
ReturnList(list) == [kind |-> "list", value |-> list]
ReturnDict(key) == [kind |-> "dict", value |-> <<key>>]
Raise(exception) == [kind |-> "raise", value |-> <<exception>>]
ReturnBool(b) == [kind |-> "bool", value |-> <<b>>]
ReturnScores(result) ==
    [kind |-> "scores", value |-> <<result.overall, result.breakdown>>]

InitLocals ==
    /\ pc = "start"
    /\ candidates = <<>>
    /\ results = <<>>
    /\ final_results = <<>>
    /\ calls = <<>>
    /\ posted = <<>>
    /\ ret = NoReturn

\* a pipeline over a short index
InitPipelineSmall ==
    /\ op = "search"
    /\ use_reranking \in BOOLEAN
    /\ use_enhanced_reranker \in BOOLEAN
    /\ use_reranking \/ use_enhanced_reranker
    /\ final_k \in 0..MaxK
    /\ hard_criteria \in HardChoices
    /\ soft_criteria \in SoftChoices
    /\ index \in SmallIndexes
    /\ ce_model \in 0..NumCEModels
    /\ object_ids = <<>>

\* a pipeline over a long index
InitPipelineLong ==
    /\ op = "search"
    /\ use_reranking \in BOOLEAN
    /\ use_enhanced_reranker = TRUE
    /\ final_k \in {MaxObjectIds, MaxIds}
    /\ hard_criteria \in {None, <<"3+ years of experience">>}
    /\ soft_criteria \in {None, <<"tax implications", "of the">>}
    /\ index \in LongIndexes
    /\ ce_model \in 0..NumCEModels
    /\ object_ids = <<>>

\* a reranker called on its own
InitRerank ==
    /\ op \in {"EnhancedReranker.rerank", "Reranker.rerank"}
    /\ use_reranking = TRUE
    /\ use_enhanced_reranker = (op = "EnhancedReranker.rerank")
    /\ final_k = 0
    /\ hard_criteria \in (IF op = "Reranker.rerank" THEN {None} ELSE HardChoices)
    /\ soft_criteria \in SoftChoices
    /\ index \in CandidateLists
    /\ ce_model \in 0..NumCEModels
    /\ object_ids = <<>>

\* an evaluation client called on its own
InitEvaluate ==
    /\ op = "evaluate"
    /\ use_reranking = TRUE
    /\ use_enhanced_reranker = TRUE
    /\ final_k = 0
    /\ hard_criteria = None
    /\ soft_criteria = None
    /\ index = <<>>
    /\ ce_model = 0
    /\ object_ids \in {[k \in 1..n |-> n + 1 - k] : n \in 0..MaxIds}

\* EnhancedReranker.check_hard_criteria called on its own
InitCheckHardCriteria ==
    /\ op = "check_hard_criteria"
    /\ use_reranking = TRUE
    /\ use_enhanced_reranker = TRUE
    /\ final_k = 0
    /\ hard_criteria \in HardCriteriaLists
    /\ soft_criteria = None
    /\ index = <<>>
    /\ ce_model = 0
    /\ object_ids = <<>>

\* EnhancedReranker.score_soft_criteria_enhanced called on its own
InitScoreSoftCriteriaEnhanced ==
    /\ op = "score_soft_criteria_enhanced"
    /\ use_reranking = TRUE
    /\ use_enhanced_reranker = TRUE
    /\ final_k = 0
    /\ hard_criteria = None
    /\ soft_criteria \in SoftCriteriaLists
    /\ index = <<>>
    /\ ce_model = 0
    /\ object_ids = <<>>

Init ==
    /\ InitLocals
    /\ \/ InitPipelineSmall
       \/ InitPipelineLong
       \/ InitRerank
       \/ InitEvaluate
       \/ InitCheckHardCriteria
       \/ InitScoreSoftCriteriaEnhanced

(***************************************************************************)
(* SearchPipeline.search                                                   *)
(***************************************************************************)
InSearch == op = "search"

\* Step 1: self.embedding_client.embed_query(query_text) returns
Embed ==
    /\ InSearch /\ pc = "start"
    /\ calls' = Append(calls, "embed")
    /\ pc' = "embedded"
    /\ UNCHANGED <<config_vars, candidates, results, final_results, posted, ret>>

\* Step 1: the embedding service fails and embed_query re-raises
EmbedRaises ==
    /\ InSearch /\ pc = "start"
    /\ calls' = Append(calls, "embed")
    /\ pc' = "raised"
    /\ ret' = Raise("Exception")
    /\ UNCHANGED <<config_vars, candidates, results, final_results, posted>>

\* Step 3: self.tpuf_client.query(...) returns; no rows: return []
Query ==
    /\ InSearch /\ pc = "embedded"
    /\ calls' = Append(calls, "query")
    /\ results' = [k \in 1..Len(index) |-> format_result(index[k])]
    /\ IF index = <<>>
       THEN /\ pc' = "done"
            /\ final_results' = <<>>
            /\ ret' = ReturnList(<<>>)
       ELSE /\ pc' = "retrieved"
            /\ UNCHANGED <<final_results, ret>>
    /\ UNCHANGED <<config_vars, candidates, posted>>

\* Step 3: the vector store fails and query re-raises
QueryRaises ==
    /\ InSearch /\ pc = "embedded"
    /\ calls' = Append(calls, "query")
    /\ pc' = "raised"
    /\ ret' = Raise("Exception")
    /\ UNCHANGED <<config_vars, candidates, results, final_results, posted>>

\* a cross-encoder called once more than it should be
call_predict_twice(log) == Append(Append(log, "predict"), "predict")

\* the record of a call of cross_encoder.predict
call_predict(log) == Append(log, "predict")

\* Step 4 with the enhanced reranker
RerankEnhanced ==
    /\ InSearch /\ pc = "retrieved"
    /\ use_reranking /\ Len(results) > 1 /\ use_enhanced_reranker
    /\ candidates' = results
    /\ results' = EnhancedReranker_rerank(results, hard_criteria, soft_criteria,
                                          ce_model)
    /\ calls' = IF Enhanced_calls_predict(results, hard_criteria)
                THEN call_predict(calls) ELSE calls
    /\ pc' = "ranked"
    /\ UNCHANGED <<config_vars, final_results, posted, ret>>

\* Step 4 with the cross-encoder reranker
RerankBasic ==
    /\ InSearch /\ pc = "retrieved"
    /\ use_reranking /\ Len(results) > 1 /\ ~use_enhanced_reranker
    /\ candidates' = results
    /\ results' = Reranker_rerank(results, soft_criteria, ce_model)
    /\ calls' = call_predict(calls)
    /\ pc' = "ranked"
    /\ UNCHANGED <<config_vars, final_results, posted, ret>>

\* Step 4 skipped: re-ranking is off or there is a single candidate
NoRerank ==
    /\ InSearch /\ pc = "retrieved"
    /\ ~(use_reranking /\ Len(results) > 1)
    /\ pc' = "ranked"
    /\ UNCHANGED <<config_vars, candidates, results, final_results, calls,
                   posted, ret>>

\* a slice that is one too long
top_k_off_by_one(ranked, k) == slice_to(ranked, k + 1)

\* Step 5: final_results = results[:self.final_k]
top_k(ranked, k) == slice_to(ranked, k)

Truncate ==
    /\ InSearch /\ pc = "ranked"
    /\ final_results' = top_k(results, final_k)
    /\ calls' = Append(calls, "truncate")
    /\ pc' = "done"
    /\ ret' = ReturnList(top_k(results, final_k))
    /\ UNCHANGED <<config_vars, candidates, results, posted>>

(***************************************************************************)
(* SearchPipeline.evaluate_query, after search_from_config has returned    *)
(***************************************************************************)
\* an evaluate_query without the test for an empty result
no_results_never(found) == FALSE

\* `if not results`
no_results(found) == found = <<>>

\* no results: return {"error": "No results found"}
EvaluateQueryNoResults ==
    /\ InSearch /\ pc = "done"
    /\ no_results(final_results)
    /\ ret' = ReturnDict("error: No results found")
    /\ pc' = "evaluate_query returned"
    /\ UNCHANGED <<config_vars, candidates, results, final_results, calls, posted>>

\* EvaluationClient(email=email) raises: no e-mail given or in the environment
EvaluateQueryNoEmail ==
    /\ InSearch /\ pc = "done"
    /\ ~no_results(final_results)
    /\ ret' = Raise("ValueError")
    /\ pc' = "evaluate_query raised"
    /\ UNCHANGED <<config_vars, candidates, results, final_results, calls, posted>>

\* evaluate_from_results(results, top_k=self.final_k), whose evaluate sends
\* the request; the API answers 200 (ok) or not
EvaluateQuerySubmit ==
    /\ InSearch /\ pc = "done"
    /\ ~no_results(final_results)
    /\ LET ids == ids_from_results(final_results, final_k)
       IN  IF evaluate_sends(ids)
           THEN /\ posted' = Append(posted, evaluate_payload(ids))
                /\ calls' = Append(calls, "post")
                /\ \E ok \in BOOLEAN :
                      /\ ret' = IF ok THEN ReturnDict("evaluation") ELSE Raise("Exception")
                      /\ pc' = IF ok THEN "evaluate_query returned"
                                    ELSE "evaluate_query raised"
           ELSE /\ ret' = Raise("ValueError")
                /\ pc' = "evaluate_query raised"
                /\ UNCHANGED <<posted, calls>>
    /\ UNCHANGED <<config_vars, candidates, results, final_results>>

(***************************************************************************)
(* The rerankers and the evaluation client called on their own             *)
(***************************************************************************)
CallEnhancedRerank ==
    /\ op = "EnhancedReranker.rerank" /\ pc = "start"
    /\ candidates' = [k \in 1..Len(index) |-> format_result(index[k])]
    /\ results' = EnhancedReranker_rerank(candidates', hard_criteria,
                                          soft_criteria, ce_model)
    /\ calls' = IF Enhanced_calls_predict(candidates', hard_criteria)
                THEN call_predict(calls) ELSE calls
    /\ ret' = ReturnList(results')
    /\ pc' = "returned"
    /\ UNCHANGED <<config_vars, final_results, posted>>

CallBasicRerank ==
    /\ op = "Reranker.rerank" /\ pc = "start"
    /\ candidates' = [k \in 1..Len(index) |-> format_result(index[k])]
    /\ results' = Reranker_rerank(candidates', soft_criteria, ce_model)
    /\ calls' = IF candidates' # <<>> THEN call_predict(calls) ELSE calls
    /\ ret' = ReturnList(results')
    /\ pc' = "returned"
    /\ UNCHANGED <<config_vars, final_results, posted>>

\* evaluate(config_path, object_ids) with an empty list: ValueError
CallEvaluateEmpty ==
    /\ op = "evaluate" /\ pc = "start"
    /\ ~evaluate_sends(object_ids)
    /\ ret' = Raise("ValueError")
    /\ pc' = "raised"
    /\ UNCHANGED <<config_vars, candidates, results, final_results, calls, posted>>

\* evaluate(config_path, object_ids) sends the request; the API answers 200 or not
CallEvaluate ==
    /\ op = "evaluate" /\ pc = "start"
    /\ evaluate_sends(object_ids)
    /\ posted' = Append(posted, evaluate_payload(object_ids))
    /\ calls' = Append(calls, "post")
    /\ \E ok \in BOOLEAN :
          /\ ret' = IF ok THEN ReturnDict("evaluation") ELSE Raise("Exception")
          /\ pc' = IF ok THEN "returned" ELSE "raised"
    /\ UNCHANGED <<config_vars, candidates, results, final_results>>

\* check_hard_criteria(candidate, hard_criteria) for some candidate
CallCheckHardCriteria ==
    /\ op = "check_hard_criteria" /\ pc = "start"
    /\ \E degrees \in DegreeLists, years \in YearLists :
          /\ candidates' = <<candidate_with(degrees, years)>>
          /\ ret' = ReturnBool(check_hard_criteria(candidate_with(degrees, years),
                                                   hard_criteria))
    /\ pc' = "returned"
    /\ UNCHANGED <<config_vars, results, final_results, calls, posted>>

\* score_soft_criteria_enhanced(candidate, soft_criteria) for some profile
CallScoreSoftCriteriaEnhanced ==
    /\ op = "score_soft_criteria_enhanced" /\ pc = "start"
    /\ \E id \in BaseIds :
          /\ candidates' = <<format_result(id)>>
          /\ ret' = ReturnScores(score_soft_criteria_enhanced(format_result(id),
                                                              soft_criteria))
    /\ pc' = "returned"
    /\ UNCHANGED <<config_vars, results, final_results, calls, posted>>

Next ==
    \/ Embed
    \/ EmbedRaises
    \/ Query
    \/ QueryRaises
    \/ RerankEnhanced
    \/ RerankBasic
    \/ NoRerank
    \/ Truncate
    \/ EvaluateQueryNoResults
    \/ EvaluateQueryNoEmail
    \/ EvaluateQuerySubmit
    \/ CallEnhancedRerank
    \/ CallBasicRerank
    \/ CallEvaluateEmpty
    \/ CallEvaluate
    \/ CallCheckHardCriteria
    \/ CallScoreSoftCriteriaEnhanced

Spec == Init /\ [][Next]_vars

(***************************************************************************)
(* The states the claims speak of.                                         *)
(***************************************************************************)
IdsOf(list) == [k \in 1..Len(list) |-> list[k]._id]

IdSet(list) == {list[k]._id : k \in 1..Len(list)}

Count(list, id) == Cardinality({k \in 1..Len(list) : list[k]._id = id})

\* search has returned final_results (evaluate_query may have gone on since)
SearchReturned ==
    /\ op = "search"
    /\ pc \in {"done", "evaluate_query returned", "evaluate_query raised"}

\* evaluate_query has returned or raised
EvaluateQueryEnded ==
    /\ op = "search"
    /\ pc \in {"evaluate_query returned", "evaluate_query raised"}

\* EnhancedReranker.rerank has just returned `results` for `candidates`
EnhancedRerankReturned ==
    \/ op = "EnhancedReranker.rerank" /\ pc = "returned"
    \/ /\ op = "search" /\ pc = "ranked"
       /\ use_enhanced_reranker /\ Len(candidates) > 0

\* Reranker.rerank has just returned `results` for `candidates`
BasicRerankReturned ==
    \/ op = "Reranker.rerank" /\ pc = "returned"
    \/ /\ op = "search" /\ pc = "ranked"
       /\ ~use_enhanced_reranker /\ Len(candidates) > 0

RerankReturned == EnhancedRerankReturned \/ BasicRerankReturned

InUnitRange(x) == RLeq(RZero, x) /\ RLeq(x, ROne)

(***************************************************************************)
(* C1.  Every candidate that search returns for a non-empty list of hard   *)
(* criteria satisfies all of them, whatever the number of candidates       *)
(* retrieved and whatever use_reranking and use_enhanced_reranker are.     *)
(* The code does not do this: search filters only inside                   *)
(* EnhancedReranker.rerank, which it skips for a single candidate, with    *)
(* use_reranking off, and with the cross-encoder Reranker.                 *)
(***************************************************************************)
C1_ReturnedSatisfyHardCriteria ==
    (SearchReturned /\ Truthy(hard_criteria)) =>
        \A k \in 1..Len(final_results) :
            check_hard_criteria(final_results[k], hard_criteria)

(***************************************************************************)
(* C2.  EnhancedReranker.rerank returns exactly the input candidates that  *)
(* pass check_hard_criteria, each as often as it was handed in (once), and *)
(* nothing else; with hard_criteria None or empty the result is a          *)
(* permutation of the input.                                               *)
(***************************************************************************)
C2_RerankKeepsExactlyPassing ==
    EnhancedRerankReturned =>
        /\ \A id \in IdSet(candidates) \cup IdSet(results) :
              Count(results, id) =
                  IF Truthy(hard_criteria)
                        => check_hard_criteria(format_result(id), hard_criteria)
                  THEN Count(candidates, id)
                  ELSE 0
        /\ \A k \in 1..Len(results) :
              /\ results[k].attributes = format_result(results[k]._id).attributes
              /\ results[k].distance = format_result(results[k]._id).distance

\* a call that dropped some candidates and kept others
C2_Witness ==
    /\ EnhancedRerankReturned
    /\ Truthy(hard_criteria)
    /\ Len(results) >= 2
    /\ Len(results) < Len(candidates)

(***************************************************************************)
(* C3.  search returns at most final_k candidates, the first               *)
(* min(final_k, n) of the ranked list; once ranked by rerank, no candidate *)
(* left out has a higher rerank_score than a candidate returned.           *)
(***************************************************************************)
C3_TopKOfRanked ==
    SearchReturned =>
        /\ Len(final_results) <= final_k
        /\ Len(final_results) =
              (IF final_k < Len(results) THEN final_k ELSE Len(results))
        /\ \A k \in 1..Len(final_results) : final_results[k] = results[k]
        /\ \A i \in 1..Len(final_results) :
              \A j \in (Len(final_results) + 1)..Len(results) :
                  results[j].rerank_score # None =>
                      RLeq(results[j].rerank_score, final_results[i].rerank_score)

\* a ranked list cut short, with a strictly lower score left out
C3_Witness ==
    /\ SearchReturned
    /\ Len(final_results) >= 1
    /\ Len(final_results) < Len(results)
    /\ results[Len(results)].rerank_score # None
    /\ RLess(results[Len(results)].rerank_score, final_results[1].rerank_score)

(***************************************************************************)
(* C4.  The list Reranker.rerank and EnhancedReranker.rerank return is in  *)
(* non-increasing order of rerank_score.                                   *)
(***************************************************************************)
C4_SortedByScore ==
    RerankReturned =>
        \A i, j \in 1..Len(results) :
            i < j => RLeq(results[j].rerank_score, results[i].rerank_score)

\* a result whose order differs from the order of the input
C4_Witness ==
    /\ RerankReturned
    /\ Len(results) = Len(candidates)
    /\ Len(results) >= 3
    /\ IdsOf(results) # IdsOf(candidates)
    /\ RLess(results[3].rerank_score, results[1].rerank_score)

(***************************************************************************)
(* C5.  A run of search makes its external calls in the order embed,       *)
(* query, predict, truncate: the embedding service is called once and      *)
(* first, the vector store at most once and only after the embedding       *)
(* (exactly once in a run that returns), the cross-encoder at most once    *)
(* and only after the vector store has returned rows, and nothing of       *)
(* search follows the truncation to final_k.                               *)
(***************************************************************************)
CallCount(name) == Cardinality({k \in 1..Len(calls) : calls[k] = name})

SearchCalls == SelectSeq(calls, LAMBDA c : c # "post")

IsPrefixOf(s, t) == Len(s) <= Len(t) /\ SubSeq(t, 1, Len(s)) = s

C5_StepsInOrder ==
    op = "search" =>
        /\ \/ IsPrefixOf(SearchCalls, <<"embed", "query", "predict", "truncate">>)
           \/ IsPrefixOf(SearchCalls, <<"embed", "query", "truncate">>)
        /\ pc # "start" => CallCount("embed") = 1
        /\ SearchReturned => CallCount("embed") = 1 /\ CallCount("query") = 1
        /\ CallCount("predict") = 1 => Len(results) > 0 /\ Len(candidates) > 1
        /\ \A i, j \in 1..Len(calls) :
              (i < j /\ calls[i] = "truncate") => calls[j] = "post"

\* a run that made all four calls and returned
C5_Witness ==
    /\ SearchReturned
    /\ SearchCalls = <<"embed", "query", "predict", "truncate">>

(***************************************************************************)
(* C6, as claimed.  The rerank_score of every candidate is a linear        *)
(* combination, with four positive weights that are the same for all       *)
(* candidates, of four scores of that candidate: cross-encoder, soft       *)
(* criteria, hard criteria (1 when the candidate passes them) and          *)
(* distance.  The weights range over the tenths.                           *)
(***************************************************************************)
hard_score(c) ==
    IF Truthy(hard_criteria) => passes_hard_criteria(c, hard_criteria)
    THEN ROne ELSE RZero

Weighted4(wc, ws, wh, wd, c) ==
    RAdd(RAdd(RMul(Rat(wc, 10), c.ce_score), RMul(Rat(ws, 10), c.soft_score)),
         RAdd(RMul(Rat(wh, 10), hard_score(c)), RMul(Rat(wd, 10), c.distance_score)))

C6_FourScoreCombination ==
    RerankReturned =>
        \E wc, ws, wh, wd \in 1..10 :
            \A k \in 1..Len(results) :
                REq(results[k].rerank_score, Weighted4(wc, ws, wh, wd, results[k]))

(***************************************************************************)
(* C6, amended.  The rerank_score of every candidate is a fixed linear     *)
(* combination of three scores of that candidate: 0.3 ce_score +           *)
(* 0.5 soft_score + 0.2 distance_score in EnhancedReranker.rerank and      *)
(* 0.6 ce_score + 0.2 soft_score + 0.2 distance_score in Reranker.rerank.  *)
(* The hard criteria add no term; they only filter, in EnhancedReranker.   *)
(***************************************************************************)
Weighted3(wc, ws, wd, c) ==
    RAdd(RAdd(RMul(Rat(wc, 10), c.ce_score), RMul(Rat(ws, 10), c.soft_score)),
         RMul(Rat(wd, 10), c.distance_score))

C6_ThreeScoreCombination ==
    /\ EnhancedRerankReturned =>
          \A k \in 1..Len(results) :
              REq(results[k].rerank_score, Weighted3(3, 5, 2, results[k]))
    /\ BasicRerankReturned =>
          \A k \in 1..Len(results) :
              REq(results[k].rerank_score, Weighted3(6, 2, 2, results[k]))

\* an enhanced rerank where the three scores of a candidate differ, and the
\* candidate passes hard criteria that were given
C6_Witness ==
    /\ EnhancedRerankReturned
    /\ Truthy(hard_criteria)
    /\ \E k \in 1..Len(results) :
          /\ ~REq(results[k].ce_score, results[k].soft_score)
          /\ ~REq(results[k].soft_score, results[k].distance_score)
          /\ ~REq(results[k].ce_score, results[k].distance_score)

(***************************************************************************)
(* C7.  Soft criteria never filter: for the same candidates, hard criteria *)
(* and cross-encoder, rerank returns the same set of candidates for every  *)
(* value of soft_criteria.                                                 *)
(***************************************************************************)
C7_SoftCriteriaNeverFilter ==
    /\ EnhancedRerankReturned =>
          \A s \in SoftChoices :
              IdSet(EnhancedReranker_rerank(candidates, hard_criteria, s, ce_model))
                  = IdSet(results)
    /\ BasicRerankReturned =>
          \A s \in SoftChoices :
              IdSet(Reranker_rerank(candidates, s, ce_model)) = IdSet(results)

\* a rerank under soft criteria that match nothing of a candidate it returns,
\* and whose order another value of soft_criteria changes
C7_Witness ==
    /\ EnhancedRerankReturned
    /\ Truthy(soft_criteria)
    /\ \E k \in 1..Len(results) : REq(results[k].soft_score, RZero)
    /\ \E s \in SoftChoices :
          IdsOf(EnhancedReranker_rerank(candidates, hard_criteria, s, ce_model))
              # IdsOf(results)

(***************************************************************************)
(* C8.  evaluate sends between 1 and 10 object IDs: with an empty list it  *)
(* raises ValueError and sends nothing; with more than 10 it sends the     *)
(* first 10 in their order; otherwise it sends the list.                   *)
(***************************************************************************)
C8_EvaluateSendsOneToTen ==
    /\ \A k \in 1..Len(posted) : Len(posted[k]) >= 1 /\ Len(posted[k]) <= 10
    /\ (op = "evaluate" /\ pc # "start") =>
          IF object_ids = <<>>
          THEN ret = Raise("ValueError") /\ posted = <<>> /\ calls = <<>>
          ELSE IF Len(object_ids) > 10
          THEN posted = <<SubSeq(object_ids, 1, 10)>>
          ELSE posted = <<object_ids>>

\* a call with more than 10 IDs
C8_Witness ==
    /\ op = "evaluate" /\ pc # "start"
    /\ Len(object_ids) > 10
    /\ Len(posted) = 1

(***************************************************************************)
(* C9, as claimed.  When search finds something, the request               *)
(* evaluate_query sends carries the IDs of the search results, all of      *)
(* them, in ranked order.                                                  *)
(***************************************************************************)
C9_SubmitsAllResultIds ==
    (EvaluateQueryEnded /\ Len(posted) > 0) => posted = <<IdsOf(final_results)>>

(***************************************************************************)
(* C9, amended.  evaluate_query returns {"error": "No results found"} and  *)
(* sends nothing whenever search returns an empty list.  Otherwise it      *)
(* builds an EvaluationClient, which raises ValueError with nothing sent   *)
(* when no e-mail address is configured, and sends one request with the    *)
(* IDs of the first 10 search results in ranked order: all of them when    *)
(* there are at most 10.                                                   *)
(***************************************************************************)
C9_SubmitsFirstTenResultIds ==
    EvaluateQueryEnded =>
        IF final_results = <<>>
        THEN ret = ReturnDict("error: No results found") /\ posted = <<>>
        ELSE \/ ret = Raise("ValueError") /\ posted = <<>>
             \/ /\ ret # Raise("ValueError")
                /\ posted =
                      <<IdsOf(SubSeq(final_results, 1,
                                     IF Len(final_results) > 10 THEN 10
                                     ELSE Len(final_results)))>>

\* more than 10 search results, evaluated
C9_Witness ==
    /\ EvaluateQueryEnded
    /\ Len(final_results) > 10
    /\ Len(posted) = 1

(***************************************************************************)
(* C10.  Soft-criteria scores lie in [0, 1]: Reranker.score_soft_criteria, *)
(* and the overall score and every per-criterion score of                  *)
(* EnhancedReranker.score_soft_criteria_enhanced, for every profile and    *)
(* criteria list, and so the soft_score and soft_criteria_breakdown that   *)
(* rerank stores.                                                          *)
(***************************************************************************)
SoftScoresInRange(b, s) ==
    /\ InUnitRange(score_soft_criteria_table[b][s])
    /\ InUnitRange(score_soft_criteria_enhanced_table[b][s].overall)
    /\ \A k \in 1..Len(score_soft_criteria_enhanced_table[b][s].breakdown) :
          InUnitRange(score_soft_criteria_enhanced_table[b][s].breakdown[k])

C10_SoftScoresInUnitRange ==
    RerankReturned =>
        /\ \A k \in 1..Len(results) : InUnitRange(results[k].soft_score)
        /\ (EnhancedRerankReturned /\ Truthy(soft_criteria)) =>
              \A k \in 1..Len(results) :
                  \A n \in 1..Len(results[k].soft_criteria_breakdown) :
                      InUnitRange(results[k].soft_criteria_breakdown[n])
        /\ \A k \in 1..Len(candidates) :
              \A s \in SoftChoices \ {None} :
                  SoftScoresInRange(BaseOf(candidates[k]._id), s)

\* an enhanced rerank that stored a score strictly between 0 and 1 and a
\* per-criterion score of 0.5 for a criterion without keywords
C10_Witness ==
    /\ EnhancedRerankReturned
    /\ Truthy(soft_criteria)
    /\ \E k \in 1..Len(results) :
          /\ RLess(RZero, results[k].soft_score)
          /\ RLess(results[k].soft_score, ROne)
          /\ \E n \in 1..Len(results[k].soft_criteria_breakdown) :
                REq(results[k].soft_criteria_breakdown[n], Rat(1, 2))

(***************************************************************************)
(* C11.  After Reranker.rerank or EnhancedReranker.rerank the ce_score of  *)
(* every returned candidate lies in [0, 1], whatever the raw outputs of    *)
(* the cross-encoder.  The code does not do this: it rescales the raw      *)
(* outputs only when their maximum exceeds their minimum, and stores them  *)
(* as they are when they are all equal or a single candidate is scored.    *)
(***************************************************************************)
C11_CeScoreInUnitRange ==
    RerankReturned =>
        \A k \in 1..Len(results) : InUnitRange(results[k].ce_score)

(***************************************************************************)
(* C12.  Within one rerank call every distance_score lies in [0, 1]; a     *)
(* candidate with a smaller distance never has a smaller distance_score    *)
(* than one with a larger distance; when the distances differ the nearest  *)
(* candidate scores 1 and the farthest 0; when they are all equal every    *)
(* candidate scores 1.                                                     *)
(***************************************************************************)
DistancesDiffer(list) ==
    \E i, j \in 1..Len(list) : list[i].distance # list[j].distance

Nearest(list, k) == \A j \in 1..Len(list) : list[k].distance <= list[j].distance

Farthest(list, k) == \A j \in 1..Len(list) : list[j].distance <= list[k].distance

C12_DistanceScore ==
    RerankReturned =>
        /\ \A k \in 1..Len(results) : InUnitRange(results[k].distance_score)
        /\ \A i, j \in 1..Len(results) :
              results[i].distance < results[j].distance =>
                  RLeq(results[j].distance_score, results[i].distance_score)
        /\ DistancesDiffer(results) =>
              \A k \in 1..Len(results) :
                  /\ Nearest(results, k) => REq(results[k].distance_score, ROne)
                  /\ Farthest(results, k) => REq(results[k].distance_score, RZero)
        /\ ~DistancesDiffer(results) =>
              \A k \in 1..Len(results) : REq(results[k].distance_score, ROne)

\* a rerank of three candidates at three distances: the middle one scores
\* strictly between 0 and 1
C12_Witness ==
    /\ RerankReturned
    /\ Len(results) = 3
    /\ \E k \in 1..3 :
          /\ RLess(RZero, results[k].distance_score)
          /\ RLess(results[k].distance_score, ROne)

(***************************************************************************)
(* The calls of check_hard_criteria and score_soft_criteria_enhanced that  *)
(* have returned: candidates[1] is the candidate, ret the value returned.  *)
(***************************************************************************)
CheckHardCriteriaReturned == op = "check_hard_criteria" /\ pc = "returned"

ScoreSoftCriteriaReturned == op = "score_soft_criteria_enhanced" /\ pc = "returned"

(***************************************************************************)
(* C13.  For one hard criterion that mentions 'year' and 'experience' and  *)
(* names a number N directly before 'year' (blanks and a '+' may stand     *)
(* between), check_hard_criteria accepts a candidate without exp_years,    *)
(* and otherwise accepts it if and only if some bucket of exp_years is,    *)
(* with its '+' stripped, a number that is at least N.  The number each    *)
(* criterion names and the number each bucket stands for are written out   *)
(* here by hand; "n/a" stands for no number.                               *)
(***************************************************************************)
YearsNamed == ("3+ years of experience" :> 3) @@ ("10 years experience" :> 10)

BucketNumber == ("1" :> 1) @@ ("3" :> 3) @@ ("10+" :> 10)

HasBucketAtLeast(exp_years, n) ==
    \E k \in 1..Len(exp_years) :
        /\ exp_years[k] \in DOMAIN BucketNumber
        /\ BucketNumber[exp_years[k]] >= n

C13_YearsCriterion ==
    (/\ CheckHardCriteriaReturned
     /\ Len(hard_criteria) = 1
     /\ hard_criteria[1] \in DOMAIN YearsNamed) =>
        ret = ReturnBool(
                  \/ candidates[1].attributes.exp_years = <<>>
                  \/ HasBucketAtLeast(candidates[1].attributes.exp_years,
                                      YearsNamed[hard_criteria[1]]))

\* a candidate accepted for 3+ years on its second bucket, "10+", the first
\* being too small
C13_Witness ==
    /\ CheckHardCriteriaReturned
    /\ hard_criteria = <<"3+ years of experience">>
    /\ candidates[1].attributes.exp_years = <<"1", "10+">>
    /\ ret = ReturnBool(TRUE)

(***************************************************************************)
(* C14.  For one hard criterion that mentions 'jd', 'juris doctor' or      *)
(* 'law school', check_hard_criteria rejects a candidate if and only if    *)
(* none of its deg_degrees contains 'jd' or 'doctor of law', whatever the  *)
(* case of the letters; a candidate without deg_degrees is rejected.       *)
(* Which criteria mention a JD and which degrees are one are written out   *)
(* here by hand.                                                           *)
(***************************************************************************)
MentionsJD == {"JD degree", "Juris Doctor required", "Graduated from law school"}

DegreeIsJD ==
    ("JD" :> TRUE) @@ ("Bachelor's" :> FALSE) @@ ("Doctor of Law" :> TRUE) @@
    ("J.D." :> FALSE)

C14_JDCriterion ==
    (/\ CheckHardCriteriaReturned
     /\ Len(hard_criteria) = 1
     /\ hard_criteria[1] \in MentionsJD) =>
        /\ ret = ReturnBool(
                     \E k \in 1..Len(candidates[1].attributes.deg_degrees) :
                         DegreeIsJD[candidates[1].attributes.deg_degrees[k]])
        /\ candidates[1].attributes.deg_degrees = <<>> => ret = ReturnBool(FALSE)

\* a candidate accepted for a law school criterion on its second degree,
\* "Doctor of Law"
C14_Witness ==
    /\ CheckHardCriteriaReturned
    /\ hard_criteria = <<"Graduated from law school">>
    /\ candidates[1].attributes.deg_degrees = <<"Bachelor's", "Doctor of Law">>
    /\ ret = ReturnBool(TRUE)

(***************************************************************************)
(* C15.  In score_soft_criteria_enhanced every keyword of a criterion      *)
(* contributes by the first tier it is found in: 1.0 in the summary, else  *)
(* 0.7 in experience or titles, else 0.4 in companies or education, else   *)
(* 0; the score of a criterion is the sum of the contributions divided by  *)
(* the number of keywords, capped at 1.0, and 0.5 when the criterion has   *)
(* no keywords; the overall score is the mean of the scores of the         *)
(* criteria.                                                               *)
(***************************************************************************)
FieldText(attributes, field) ==
    lower(IF field = "summary" THEN Chars[attributes.rerankSummary]
          ELSE IF field = "experience" THEN join(CharsOfAll(attributes.experience))
          ELSE IF field = "titles" THEN join(CharsOfAll(attributes.exp_titles))
          ELSE IF field = "companies" THEN join(CharsOfAll(attributes.exp_companies))
          ELSE join(CharsOfAll(attributes.education)))

FoundIn(attributes, keyword, fields) ==
    \E f \in fields : contains(keyword, FieldText(attributes, f))

\* the contribution of a keyword, in tenths
TierTenths(attributes, keyword) ==
    IF FoundIn(attributes, keyword, {"summary"}) THEN 10
    ELSE IF FoundIn(attributes, keyword, {"experience", "titles"}) THEN 7
    ELSE IF FoundIn(attributes, keyword, {"companies", "education"}) THEN 4
    ELSE 0

RECURSIVE SumTenths(_, _)
SumTenths(attributes, keywords) ==
    IF keywords = <<>> THEN 0
    ELSE TierTenths(attributes, Head(keywords)) + SumTenths(attributes, Tail(keywords))

\* the score the claim gives a criterion
TierScore(attributes, criterion) ==
    LET keywords == extract_keywords(Chars[criterion])
        tenths == SumTenths(attributes, keywords)
    IN  IF keywords = <<>> THEN Rat(1, 2)
        ELSE IF tenths >= 10 * Len(keywords) THEN ROne
        ELSE Rat(tenths, 10 * Len(keywords))

C15_SoftScoreTiers ==
    ScoreSoftCriteriaReturned =>
        LET attributes == candidates[1].attributes
            criteria == dict_keys(soft_criteria)
            overall == ret.value[1]
            breakdown == ret.value[2]
        IN  /\ Len(breakdown) = Len(criteria)
            /\ \A k \in 1..Len(criteria) :
                  REq(breakdown[k], TierScore(attributes, criteria[k]))
            /\ REq(RMul(overall, Rat(Len(criteria), 1)), RSum(breakdown))

\* the profile whose titles hold "tax" and whose companies hold "audits",
\* scored on a criterion with three keywords and on one without keywords:
\* 0.4 / 3 and 0.5, mean 19/60
C15_Witness ==
    /\ ScoreSoftCriteriaReturned
    /\ candidates[1]._id = 2
    /\ soft_criteria = <<"Experience handling IRS audits", "of the">>
    /\ REq(ret.value[2][1], Rat(2, 15))
    /\ REq(ret.value[2][2], Rat(1, 2))
    /\ REq(ret.value[1], Rat(19, 60))

====
